---- MODULE Spec2Model ----
(***************************************************************************)
(* A model of helm-resource: the helm-api crate (Helm::configure, run,     *)
(* kube_api, list, digest, upgrade) and the check / in / out verbs that    *)
(* compose it.                                                             *)
(*                                                                         *)
(* Strings whose characters the code inspects (labels, names, versions,    *)
(* namespaces) are sequences of one-character strings.  An Option<T> is a  *)
(* sequence of length 0 (None) or 1 (Some).  A serde_json::Value is a      *)
(* tagged tuple: <<"num">>, <<"str", chars>>, <<"arr", seq>>, <<"obj", map>>  *)
(* where map is a function from key names to Values.                       *)
(***************************************************************************)
EXTENDS Integers, Sequences, FiniteSets, TLC

\* ------------------------------------------------------------------ bounds
\* Longest item array a cluster response carries.
MaxItems == 2
\* Longest chart list of an out request.
MaxCharts == 3

\* ------------------------------------------------------------ Option<T>
None == << >>
Some(x) == << x >>
IsSome(o) == Len(o) = 1
IsNone(o) == Len(o) = 0
Unwrap(o) == o[1]

\* --------------------------------------------------------------- strings
S_ns == << "n", "s" >>
S_other == << "k", "u", "b", "e" >>
S_Tiller == << "T", "i", "l", "l", "e", "r" >>
S_Helm == << "H", "e", "l", "m" >>
S_r1 == << "r", "1" >>
S_r == << "r" >>
S_mychart_1_2_3 == << "m", "y", "c", "h", "a", "r", "t", "-", "1", ".", "2", ".", "3" >>
S_mychart == << "m", "y", "c", "h", "a", "r", "t" >>
S_1_2_3 == << "1", ".", "2", ".", "3" >>
S_my_chart_name_2_0_0 ==
    << "m", "y", "-", "c", "h", "a", "r", "t", "-", "n", "a", "m", "e",
       "-", "2", ".", "0", ".", "0" >>
S_1_ == << "1", "-" >>
S_hyphen == << "-" >>
S_empty == << >>

\* str::trim on the characters the model uses: leading and trailing blanks
\* are removed.
RECURSIVE TrimStart(_)
TrimStart(s) == IF s # << >> /\ Head(s) = " " THEN TrimStart(Tail(s)) ELSE s
RECURSIVE TrimEnd(_)
TrimEnd(s) ==
    IF s # << >> /\ s[Len(s)] = " " THEN TrimEnd(SubSeq(s, 1, Len(s) - 1)) ELSE s
Trim(s) == TrimEnd(TrimStart(s))

\* The positions of a character in a string.
Positions(s, c) == { p \in 1..Len(s) : s[p] = c }
Max(S) == CHOOSE m \in S : \A x \in S : x <= m
Min(S) == CHOOSE m \in S : \A x \in S : m <= x

\* str::splitn(2, c): the pieces, front first, split at the FIRST c.
SplitN2(s, c) ==
    IF Positions(s, c) = {} THEN << s >>
    ELSE LET p == Min(Positions(s, c))
         IN  << SubSeq(s, 1, p - 1), SubSeq(s, p + 1, Len(s)) >>

\* str::rsplitn(2, c): the pieces the iterator yields, in the order it yields
\* them: the suffix after the LAST c, then everything before it; the whole
\* string alone when c does not occur.
RSplitN2(s, c) ==
    IF Positions(s, c) = {} THEN << s >>
    ELSE LET p == Max(Positions(s, c))
         IN  << SubSeq(s, p + 1, Len(s)), SubSeq(s, 1, p - 1) >>

\* Iterator::next on the pieces, and Iterator::last on what next left.
IterNext(pieces) == IF pieces = << >> THEN None ELSE Some(Head(pieces))
IterRest(pieces) == IF pieces = << >> THEN << >> ELSE Tail(pieces)
IterLast(pieces) == IF pieces = << >> THEN None ELSE Some(pieces[Len(pieces)])

\* ------------------------------------------------------ serde_json::Value
JNum == << "num" >>
JStr(s) == << "str", s >>
JArr(a) == << "arr", a >>
JObj(m) == << "obj", m >>

\* Value::as_str, Value::as_object, Value::as_array.
AsStr(v) == IF v[1] = "str" THEN Some(v[2]) ELSE None
AsObject(v) == IF v[1] = "obj" THEN Some(v[2]) ELSE None
AsArray(v) == IF v[1] = "arr" THEN Some(v[2]) ELSE None
\* Map::get.
Get(m, key) == IF key \in DOMAIN m THEN Some(m[key]) ELSE None
\* Option::and_then with one of the accessors above.
GetStr(m, key) == IF IsSome(Get(m, key)) THEN AsStr(Unwrap(Get(m, key))) ELSE None
GetObject(m, key) == IF IsSome(Get(m, key)) THEN AsObject(Unwrap(Get(m, key))) ELSE None
GetArray(m, key) == IF IsSome(Get(m, key)) THEN AsArray(Unwrap(Get(m, key))) ELSE None

\* ------------------------------------------------------------ Helm::list
\* The Chart the labels of one surviving item give (lib.rs 219-239): release
\* is labels.release, the chart label is split by rsplitn(2, '-'), the first
\* piece is the version and the last remaining piece the name.  None when a
\* label is missing, not a string, or the chart label has no hyphen.
ChartOfPieces(release, pieces) ==
    LET version == IterNext(pieces)
        chart_name == IterLast(IterRest(pieces))
    IN  IF IsSome(version) /\ IsSome(chart_name)
        THEN Some([release |-> release, name |-> Unwrap(chart_name),
                   version |-> Some(Unwrap(version)), overrides |-> None])
        ELSE None

\* A slip of lib.rs 225: the label is split at its first hyphen.
SplitChartLabel_FirstHyphen(c) ==
    LET pieces == SplitN2(c, "-")
    IN  IF Len(pieces) = 2 THEN << pieces[2], pieces[1] >> ELSE pieces

SplitChartLabel(c) == RSplitN2(c, "-")

ChartOfLabels(labels) ==
    LET release == GetStr(labels, "release")
        chart == GetStr(labels, "chart")
    IN  IF IsSome(release) /\ IsSome(chart)
        THEN ChartOfPieces(Unwrap(release), SplitChartLabel(Unwrap(chart)))
        ELSE None

\* The filter on metadata.namespace (lib.rs 203-209).
NamespaceMatches(metadata, namespace) ==
    LET n == GetStr(metadata, "namespace")
    IN  IF IsSome(n) THEN Unwrap(n) = namespace ELSE FALSE

\* A slip of lib.rs 217: an item without a heritage label passes the filter.
HeritageMatches_MissingPasses(labels) ==
    LET n == GetStr(labels, "heritage")
    IN  IF IsSome(n) THEN Unwrap(n) = S_Tiller ELSE TRUE

\* The filter on labels.heritage (lib.rs 212-218).
HeritageMatches(labels) ==
    LET n == GetStr(labels, "heritage")
    IN  IF IsSome(n) THEN Unwrap(n) = S_Tiller ELSE FALSE

\* One item through the whole iterator chain (lib.rs 199-240): each stage
\* either passes its value on or drops the item.
ItemChart(item, namespace) ==
    LET o == AsObject(item)
    IN  IF IsNone(o) THEN None
        ELSE LET metadata == GetObject(Unwrap(o), "metadata")
             IN  IF IsNone(metadata) THEN None
                 ELSE IF ~NamespaceMatches(Unwrap(metadata), namespace) THEN None
                 ELSE LET labels == GetObject(Unwrap(metadata), "labels")
                      IN  IF IsNone(labels) THEN None
                          ELSE IF ~HeritageMatches(Unwrap(labels)) THEN None
                          ELSE ChartOfLabels(Unwrap(labels))

\* filter_map(..).collect() over the items, in the order of the response.
RECURSIVE CollectCharts(_, _)
CollectCharts(items, namespace) ==
    IF items = << >> THEN << >>
    ELSE ItemChart(Head(items), namespace) \o CollectCharts(Tail(items), namespace)

\* deployments.get("items").and_then(as_array).map_or(Vec::new(), ..)
ListCharts(deployments, namespace) ==
    LET items == GetArray(deployments, "items")
    IN  IF IsSome(items) THEN CollectCharts(Unwrap(items), namespace) ELSE << >>

\* ---------------------------------------------------------- Helm::digest
\* md5::Context is modelled by a 16-bit streaming hash: the state after
\* consuming a string depends only on the state before and the characters,
\* in order, so consuming a then b equals consuming a \o b, as for MD5.
HashWidth == 65536
CharCode(c) ==
    CASE c = "-" -> 45 [] c = "." -> 46 [] c = "0" -> 48 [] c = "1" -> 49
      [] c = "2" -> 50 [] c = "3" -> 51 [] c = "a" -> 97 [] c = "c" -> 99
      [] c = "e" -> 101 [] c = "h" -> 104 [] c = "m" -> 109 [] c = "n" -> 110
      [] c = "r" -> 114 [] c = "t" -> 116 [] c = "y" -> 121 [] OTHER -> 63

ContextNew == 5381
RECURSIVE Consume(_, _)
Consume(h, s) ==
    IF s = << >> THEN h
    ELSE Consume((h * 33 + CharCode(Head(s))) % HashWidth, Tail(s))

\* format!("{:x}", ..): lower-case hexadecimal, four digits for 16 bits.
HexDigit(d) ==
    << "0", "1", "2", "3", "4", "5", "6", "7", "8", "9", "a", "b", "c", "d", "e", "f" >>[d + 1]
Hex(h) ==
    << HexDigit(h \div 4096), HexDigit((h \div 256) % 16),
       HexDigit((h \div 16) % 16), HexDigit(h % 16) >>

\* A slip of lib.rs 248-249: the name is consumed before the release.
ConsumeChart_NameFirst(h, chart) ==
    LET h1 == Consume(h, chart.name)
        h2 == Consume(h1, chart.release)
    IN  IF IsSome(chart.version) THEN Consume(h2, Unwrap(chart.version)) ELSE h2

\* One turn of the loop of digest (lib.rs 248-252).
ConsumeChart(h, chart) ==
    LET h1 == Consume(h, chart.release)
        h2 == Consume(h1, chart.name)
    IN  IF IsSome(chart.version) THEN Consume(h2, Unwrap(chart.version)) ELSE h2

\* ------------------------------------------------------------- the inputs
\* Config.url: a base URL, a URL that cannot be a base, and text that is no
\* URL.  Url::parse fails on the last, path_segments_mut on the second.
Urls == { "https://cluster.example", "mailto:ops@cluster.example", "cluster" }
UrlParses(url) == url # "cluster"
UrlCanBeABase(url) == url = "https://cluster.example"

\* Config.ca_data as given in the request, blanks around it.
S_ca == << " ", "C", "A", " " >>

Sources ==
    [ url : Urls, username : { "u" }, password : { "p" }, namespace : { S_ns },
      skip_tls_verify : { None, Some(TRUE), Some(FALSE) },
      ca_data : { None, Some(S_ca) } ]

\* The overrides of a chart: a HashMap<String, Value>.
SomeOverrides == Some([ replicas |-> JNum ])

\* The charts of an out request, by kind: version and overrides are optional.
ChartKinds == { "plain", "pinned", "values", "pinned_values" }
ParamChart(kind) ==
    [ release |-> S_r1, name |-> S_mychart,
      version |-> IF kind \in { "pinned", "pinned_values" } THEN Some(S_1_2_3) ELSE None,
      overrides |-> IF kind \in { "values", "pinned_values" } THEN SomeOverrides ELSE None ]

\* The inventory items a response may carry, by shape.  "t" is the item's
\* structure, the other fields the shape of one field each.
ItemObject(ns, heritage, release, chart) ==
    LET fld(name, v) == IF v = << "absent" >> THEN << >> ELSE << << name, v >> >>
        mk(pairs) == [ k \in { pr[1] : pr \in { pairs[i] : i \in 1..Len(pairs) } } |->
                         (CHOOSE pr \in { pairs[i] : i \in 1..Len(pairs) } : pr[1] = k)[2] ]
        labels == mk(fld("heritage", heritage) \o fld("release", release) \o fld("chart", chart))
        metadata == mk(fld("namespace", ns) \o << << "labels", JObj(labels) >> >>)
    IN  JObj([ metadata |-> JObj(metadata) ])

Absent == << "absent" >>
NsShapes == << Absent, JNum, JStr(S_other), JStr(S_ns) >>
HeritageShapes == << Absent, JNum, JStr(S_Helm), JStr(S_Tiller) >>
ReleaseShapes == << Absent, JNum >>
ChartShapes ==
    << Absent, JNum, JStr(S_mychart), JStr(S_empty), JStr(S_mychart_1_2_3),
       JStr(S_my_chart_name_2_0_0), JStr(S_hyphen) >>

\* Items that are no object, or whose metadata or labels are missing or no
\* object.
BrokenItems ==
    << JNum,
       JObj([ kind |-> JStr(S_r) ]),
       JObj([ metadata |-> JNum ]),
       JObj([ metadata |-> JObj([ namespace |-> JStr(S_ns) ]) ]),
       JObj([ metadata |-> JObj([ namespace |-> JStr(S_ns), labels |-> JNum ]) ]) >>

\* Shape ids: broken items; every namespace and heritage with good labels;
\* a managed item with a bad release label; a managed item with each chart
\* label.
ShapeIds ==
    ({ "broken" } \X (1..Len(BrokenItems)) \X { 1 })
      \cup ({ "scope" } \X (1..Len(NsShapes)) \X (1..Len(HeritageShapes)))
      \cup ({ "labels" } \X (1..Len(ReleaseShapes)) \X { 5 })
      \cup ({ "labels" } \X { 3 } \X (1..Len(ChartShapes)))

ItemOf(id) ==
    CASE id[1] = "broken" -> BrokenItems[id[2]]
      [] id[1] = "scope" ->
            ItemObject(NsShapes[id[2]], HeritageShapes[id[3]], JStr(S_r), JStr(S_1_))
      [] id[1] = "labels" ->
            ItemObject(JStr(S_ns), JStr(S_Tiller),
                       (ReleaseShapes \o << JStr(S_r1) >>)[id[2]], ChartShapes[id[3]])

\* What the cluster answers the inventory request with: a transport failure,
\* or a body.  A body is text that is no JSON (<<"garbage">>) or a JSON value.
TransportError == [ transport |-> "err", body |-> << "garbage" >> ]
Body(v) == [ transport |-> "ok", body |-> v ]
ItemsBody(ids) == Body(JObj([ items |-> JArr([ i \in 1..Len(ids) |-> ItemOf(ids[i]) ]) ]))

NoResponse == [ transport |-> "none", body |-> << "garbage" >> ]

\* Answers by id: the kind of answer and, for an item array, its shape ids.
ResponseOf(id) ==
    CASE id.kind = "transport_err" -> TransportError
      [] id.kind = "garbage" -> Body(<< "garbage" >>)
      [] id.kind = "array" -> Body(JArr(<< >>))
      [] id.kind = "no_items" -> Body(JObj([ kind |-> JStr(S_r) ]))
      [] id.kind = "items_num" -> Body(JObj([ items |-> JNum ]))
      [] id.kind = "items" -> ItemsBody(id.ids)

OtherResponseIds ==
    [ kind : { "transport_err", "garbage", "array", "no_items", "items_num" },
      ids : { << >> } ]
\* The answers the verbs are run against.
FlowResponseIds ==
    OtherResponseIds
      \cup { [ kind |-> "items", ids |-> << << "labels", 3, 5 >>, << "scope", 3, 4 >> >> ] }
\* The answers a direct call of digest is run against: every item array of
\* at most MaxItems shapes.
ListResponseIds ==
    OtherResponseIds
      \cup [ kind : { "items" },
             ids : UNION { [ 1..n -> ShapeIds ] : n \in 0..MaxItems } ]
ResponseIds(v) == IF v = "digest" THEN ListResponseIds ELSE FlowResponseIds

\* -------------------------------------------------------------- the state
VARIABLES
    source,         \* the request's Source, turned into Config
    verb,           \* "check", "in", "out", or "digest" for a direct call
    params,         \* the charts of an out request
    response,       \* what the cluster answers the inventory request with
    pc,             \* the position in the code
    fs,             \* the temporary files on disk: path -> content
    temps,          \* the paths a live Temp owns (removed when it is dropped)
    helm,           \* the Helm struct built by configure (lib.rs 110)
    conn,           \* the Helm a successful configure returned
    runCmd,         \* run: the command text
    runOut,         \* run: the Output of the process
    retpc,          \* run: where its caller continues
    ret,            \* the value the last run returned
    events,         \* diagnostics written and processes spawned, in order
    idx,            \* out: the index of the chart being upgraded
    overrides_file, \* upgrade: the Temp of the values file, if any
    curl,           \* kube_api: the options set on the Easy handle
    deployments,    \* list: the parsed response
    inventory,      \* the Vec<Chart> list returned
    api_url,        \* list: the URL of the inventory endpoint
    hash,           \* digest: the md5 Context
    fold,           \* digest: the number of charts consumed
    result,         \* how the verb ended
    sent            \* the messages written to the response channel

vars ==
    << source, verb, params, response, api_url, pc, fs, temps, helm, conn, runCmd, runOut,
       retpc, ret, events, idx, overrides_file, curl, deployments, inventory,
       hash, fold, result, sent >>

envVars == << source, verb, params >>
runVars == << runCmd, runOut, retpc, ret >>
listVars == << response, api_url, curl, deployments, inventory, hash, fold >>

\* Paths of the temporary files.
KubeConfigPath == << "/tmp/kube_config" >>
CaCertPath == << "/tmp/ca_cert" >>
ValuesPath(i) == << "/tmp/values", HexDigit(i) >>

\* Result values: Ok with its value, a HelmError (cmd is the text CmdFailed
\* carries), or a panic.
Err(kind) == [ kind |-> "err", err |-> kind, cmd |-> << >>, value |-> << >> ]
CmdFailed(cmd) == [ kind |-> "err", err |-> "CmdFailed", cmd |-> cmd, value |-> << >> ]
Ok(value) == [ kind |-> "ok", err |-> "", cmd |-> << >>, value |-> value ]
Panic == [ kind |-> "panic", err |-> "", cmd |-> << >>, value |-> << >> ]
NoResult == [ kind |-> "none", err |-> "", cmd |-> << >>, value |-> << >> ]

\* Command texts: the pieces joined by blanks, each a literal followed by an
\* interpolated value.
Piece(lit, arg) == [ lit |-> lit, arg |-> arg ]
InitCmd == << Piece("helm init --client-only 1>&2", << >>) >>
RepoUpdateCmd == << Piece("helm repo update", << >>) >>

\* Entries of events.
Wrote(what, cmd, data) == [ ev |-> "stderr", what |-> what, cmd |-> cmd, data |-> data ]
Spawned(cmd, status, kubeconfig) ==
    [ ev |-> "spawn", what |-> status, cmd |-> cmd, data |-> kubeconfig ]
FileWrote(path) == [ ev |-> "file", what |-> "write", cmd |-> << >>, data |-> path ]
Returned(cmd, how) == [ ev |-> "return", what |-> how, cmd |-> cmd, data |-> << >> ]

NoOutput == [ status |-> "none", stdout |-> << >>, stderr |-> << >> ]
NoCurl == [ url |-> << >>, username |-> "", password |-> "", cainfo |-> None,
            ssl_verify_peer |-> TRUE ]

\* Dropping every live Temp removes the file it owns.
DropAll(files, owned) == [ f \in (DOMAIN files) \ owned |-> files[f] ]

\* An error leaves the verb: try! returns it from every frame, the Temps of
\* those frames are dropped, nothing is written to the response channel.  A
\* panic unwinds through the same frames and drops the same Temps.
Exit(r) ==
    /\ result' = r
    /\ pc' = "done"
    /\ fs' = DropAll(fs, temps)
    /\ temps' = {}

Init ==
    /\ source \in Sources
    /\ verb \in { "check", "in", "out" }
    /\ \E n \in 0..MaxCharts : \E kinds \in [ 1..n -> ChartKinds ] :
          /\ verb # "out" => n = 0
          /\ params = [ i \in 1..n |-> ParamChart(kinds[i]) ]
    /\ response = NoResponse
    /\ pc = "configure"
    /\ fs = << >>
    /\ temps = {}
    /\ helm = None
    /\ conn = None
    /\ runCmd = << >>
    /\ runOut = NoOutput
    /\ retpc = ""
    /\ ret = << >>
    /\ events = << >>
    /\ idx = 0
    /\ overrides_file = None
    /\ curl = NoCurl
    /\ api_url = << >>
    /\ deployments = << >>
    /\ inventory = << >>
    /\ hash = ContextNew
    /\ fold = 0
    /\ result = NoResult
    /\ sent = << >>

\* ------------------------------------------------------- Helm::configure
\* lib.rs 75: the invariant on the Config.
UnwrapOr(o, d) == IF IsSome(o) THEN Unwrap(o) ELSE d
\* A slip of lib.rs 75: a skip_tls_verify that is given, even as false, passes.
NoCaData_PresenceOnly(config) ==
    IsNone(config.ca_data) /\ IsNone(config.skip_tls_verify)
NoCaData(config) == IsNone(config.ca_data) /\ ~UnwrapOr(config.skip_tls_verify, FALSE)

ConfigureInvariant ==
    /\ pc = "configure"
    /\ IF NoCaData(source)
       THEN Exit(Err("NoCaData"))
       ELSE /\ pc' = "kube_config"
            /\ UNCHANGED << fs, temps, result >>
    /\ UNCHANGED << envVars, helm, conn, runVars, events, idx, overrides_file,
                    listVars, sent >>

\* base64::encode of the trimmed ca_data, kept symbolic.
Base64(s) == << "base64" >> \o s

\* lib.rs 87-94: the rendered client configuration.
RenderKubeConfig(config) ==
    [ skip_tls_verify |-> UnwrapOr(config.skip_tls_verify, FALSE),
      url |-> config.url,
      namespace |-> config.namespace,
      username |-> config.username,
      password |-> config.password,
      ca_data |-> IF IsSome(config.ca_data)
                  THEN Base64(Trim(Unwrap(config.ca_data))) ELSE << >> ]

\* lib.rs 80-97: the client configuration is written to a temporary file; an
\* I/O error returns, dropping the Temp.
ConfigureKubeConfig ==
    /\ pc = "kube_config"
    /\ \E io \in { "ok", "err" } :
          IF io = "ok"
          THEN /\ fs' = (KubeConfigPath :> RenderKubeConfig(source)) @@ fs
               /\ temps' = temps \cup { KubeConfigPath }
               /\ events' = Append(events, FileWrote(KubeConfigPath))
               /\ pc' = "ca_cert"
               /\ UNCHANGED result
          ELSE /\ Exit(Err("Io"))
               /\ UNCHANGED events
    /\ UNCHANGED << envVars, helm, conn, runVars, idx, overrides_file, listVars, sent >>

\* lib.rs 110-117.
NewHelm(config, ca_cert_path) ==
    [ namespace |-> config.namespace, server |-> config.url,
      username |-> config.username, password |-> config.password,
      kube_config |-> KubeConfigPath, kube_ca_cert |-> ca_cert_path ]

\* lib.rs 128: run is entered with cmd; its caller continues at cont.
CallRun(cmd, cont) ==
    /\ runCmd' = cmd
    /\ retpc' = cont
    /\ runOut' = NoOutput
    /\ pc' = "run_log"

\* lib.rs 100-120: the trust anchor is written when ca_data is given, the
\* Helm struct is built and helm init is run.
ConfigureCaCert ==
    /\ pc = "ca_cert"
    /\ \E io \in { "ok", "err" } :
          IF IsSome(source.ca_data) /\ io = "err"
          THEN /\ Exit(Err("Io"))
               /\ UNCHANGED << helm, runVars, events >>
          ELSE /\ IF IsSome(source.ca_data)
                  THEN /\ fs' = (CaCertPath :> Unwrap(source.ca_data)) @@ fs
                       /\ temps' = temps \cup { CaCertPath }
                       /\ events' = Append(events, FileWrote(CaCertPath))
                       /\ helm' = Some(NewHelm(source, Some(CaCertPath)))
                  ELSE /\ helm' = Some(NewHelm(source, None))
                       /\ UNCHANGED << fs, temps, events >>
               /\ CallRun(InitCmd, "repo_update")
               /\ UNCHANGED << result, ret >>
    /\ UNCHANGED << envVars, conn, idx, overrides_file, listVars, sent >>

\* A slip of lib.rs 123: the repository index is not refreshed.
ConfigureRepoUpdate_Skipped ==
    /\ pc = "repo_update"
    /\ pc' = "configured"
    /\ UNCHANGED << envVars, fs, temps, helm, conn, runVars, events, idx,
                    overrides_file, listVars, result, sent >>

\* lib.rs 123.
ConfigureRepoUpdate ==
    /\ pc = "repo_update"
    /\ CallRun(RepoUpdateCmd, "configured")
    /\ UNCHANGED << envVars, fs, temps, helm, conn, ret, events, idx,
                    overrides_file, listVars, result, sent >>

\* ------------------------------------------------------------- Helm::run
\* What a spawned /bin/sh -c cmd may give: exit status 0 or not, with the
\* output captured, or no process at all.
Outputs ==
    { [ status |-> "exit0", stdout |-> << " ", "o", "k", " " >>, stderr |-> << "w" >> ],
      [ status |-> "exit1", stdout |-> << "o" >>, stderr |-> << "e", "r", "r" >> ] }

\* lib.rs 130: the command is logged.
RunLog ==
    /\ pc = "run_log"
    /\ events' = Append(events, Wrote("running", runCmd, << >>))
    /\ pc' = "run_spawn"
    /\ UNCHANGED << envVars, fs, temps, helm, conn, runVars, idx, overrides_file,
                    listVars, result, sent >>

\* lib.rs 132-136: the shell runs the command with KUBECONFIG set to the
\* client configuration; failing to spawn it is an I/O error.
RunSpawn ==
    /\ pc = "run_spawn"
    /\ \E spawned \in BOOLEAN : \E out \in Outputs :
          IF spawned
          THEN /\ runOut' = out
               /\ events' = Append(events,
                                   Spawned(runCmd, out.status, Unwrap(helm).kube_config))
               /\ pc' = "run_mirror"
               /\ UNCHANGED << fs, temps, result >>
          ELSE /\ Exit(Err("Io"))
               /\ UNCHANGED << runOut, events >>
    /\ UNCHANGED << envVars, helm, conn, runCmd, retpc, ret, idx, overrides_file,
                    listVars, sent >>

\* lib.rs 139-141: stdout, then stderr, of the process go to the diagnostics.
\* A slip of lib.rs 139-140: stderr of the process is not mirrored.
MirrorOutput_StdoutOnly(cmd, out) == << Wrote("stdout", cmd, out.stdout) >>
MirrorOutput(cmd, out) ==
    << Wrote("stdout", cmd, out.stdout), Wrote("stderr", cmd, out.stderr) >>

RunMirror ==
    /\ pc = "run_mirror"
    /\ events' = events \o MirrorOutput(runCmd, runOut)
    /\ pc' = "run_status"
    /\ UNCHANGED << envVars, fs, temps, helm, conn, runVars, idx, overrides_file,
                    listVars, result, sent >>

\* A slip of lib.rs 143-145: the exit status is not looked at.
RunResult_IgnoreStatus(cmd, out) == Ok(Trim(out.stdout))

\* lib.rs 143-147: what run returns for an Output.
RunResult(cmd, out) ==
    IF out.status # "exit0" THEN CmdFailed(cmd) ELSE Ok(Trim(out.stdout))

RunStatus ==
    /\ pc = "run_status"
    /\ LET r == RunResult(runCmd, runOut)
       IN  IF r.kind = "err"
           THEN /\ Exit(r)
                /\ events' = Append(events, Returned(runCmd, "err"))
                /\ UNCHANGED ret
           ELSE /\ ret' = r.value
                /\ pc' = retpc
                /\ events' = Append(events, Returned(runCmd, "ok"))
                /\ UNCHANGED << fs, temps, result >>
    /\ UNCHANGED << envVars, helm, conn, runCmd, runOut, retpc, idx, overrides_file,
                    listVars, sent >>

\* lib.rs 125: configure returns the Helm.
ConfigureOk ==
    /\ pc = "configured"
    /\ conn' = helm
    /\ pc' = "verb"
    /\ UNCHANGED << envVars, fs, temps, helm, runVars, events, idx, overrides_file,
                    listVars, result, sent >>

\* ------------------------------------------------------------- the verbs
\* check and in go on to digest; out first upgrades its charts.
Verb ==
    /\ pc = "verb"
    /\ idx' = 0
    /\ pc' = IF verb = "out" THEN "out_loop" ELSE "digest"
    /\ UNCHANGED << envVars, fs, temps, helm, conn, runVars, events, overrides_file,
                    listVars, result, sent >>

\* out: the next chart of the request, in request order, or the digest once
\* every chart is upgraded.
OutLoop ==
    /\ pc = "out_loop"
    /\ IF idx < Len(params)
       THEN /\ idx' = idx + 1
            /\ pc' = "upgrade"
       ELSE /\ pc' = "digest"
            /\ UNCHANGED idx
    /\ UNCHANGED << envVars, fs, temps, helm, conn, runVars, events, overrides_file,
                    listVars, result, sent >>

\* ---------------------------------------------------------- Helm::upgrade
\* serde_yaml of the overrides, kept symbolic.
ToYaml(overrides) == << "yaml" >>

\* lib.rs 258-289: the command text.
UpgradeCmd(namespace, chart, values_path) ==
    << Piece("helm upgrade -i --namespace", namespace) >>
      \o (IF IsSome(chart.version)
          THEN << Piece("--version", Unwrap(chart.version)) >> ELSE << >>)
      \o (IF IsSome(chart.overrides)
          THEN << Piece("--values", Unwrap(values_path)) >> ELSE << >>)
      \o << Piece("", chart.release), Piece("stable/", chart.name) >>

\* lib.rs 257-291: the values file is created and written when the chart has
\* overrides (an error there returns, dropping its Temp), the values are
\* logged and the command is run.
UpgradeBegin ==
    /\ pc = "upgrade"
    /\ LET chart == params[idx]
           path == ValuesPath(idx)
       IN  \E io \in { "ok", "err" } :
              IF IsSome(chart.overrides) /\ io = "err"
              THEN /\ Exit(Err("Yaml"))
                   /\ UNCHANGED << runVars, events, overrides_file >>
              ELSE /\ IF IsSome(chart.overrides)
                      THEN /\ fs' = (path :> ToYaml(Unwrap(chart.overrides))) @@ fs
                           /\ temps' = temps \cup { path }
                           /\ overrides_file' = Some(path)
                           /\ events' = events \o
                                 << FileWrote(path),
                                    Wrote("values", << >>, ToYaml(Unwrap(chart.overrides))) >>
                      ELSE /\ overrides_file' = None
                           /\ UNCHANGED << fs, temps, events >>
                   /\ CallRun(UpgradeCmd(Unwrap(conn).namespace, chart,
                                         IF IsSome(chart.overrides) THEN Some(path) ELSE None),
                              "upgrade_cleanup")
                   /\ UNCHANGED << result, ret >>
    /\ UNCHANGED << envVars, helm, conn, idx, listVars, sent >>

\* Temp::release: the Temp gives up the path, so that dropping it removes
\* nothing.
Release(owned, file) == owned \ { file }

\* lib.rs 293-297: reached when run returned Ok.
UpgradeCleanup ==
    /\ pc = "upgrade_cleanup"
    /\ temps' = IF IsSome(overrides_file) THEN Release(temps, Unwrap(overrides_file))
                ELSE temps
    /\ overrides_file' = None
    /\ pc' = "out_loop"
    /\ UNCHANGED << envVars, fs, helm, conn, runVars, events, idx, listVars,
                    result, sent >>

\* ---------------------------------------------------------- Helm::digest
\* lib.rs 246-247: a fresh Context, then list is called.
DigestNew ==
    /\ pc = "digest"
    /\ hash' = ContextNew
    /\ fold' = 0
    /\ pc' = "list_url"
    /\ UNCHANGED << envVars, fs, temps, helm, conn, runVars, events, idx,
                    overrides_file, response, api_url, curl, deployments, inventory,
                    result, sent >>

\* lib.rs 183-191: the inventory endpoint.
DeploymentsApi(server, namespace) ==
    << server, "apis", "extensions", "v1beta1", "namespaces", namespace, "deployments" >>

ListUrl ==
    /\ pc = "list_url"
    /\ LET self == Unwrap(conn)
       IN  IF UrlParses(self.server) /\ UrlCanBeABase(self.server)
           THEN /\ api_url' = DeploymentsApi(self.server, self.namespace)
                /\ pc' = "kube_setup"
                /\ UNCHANGED << fs, temps, result >>
           ELSE /\ Exit(Err("UrlParse"))
                /\ UNCHANGED api_url
    /\ UNCHANGED << envVars, helm, conn, runVars, events, idx, overrides_file,
                    response, curl, deployments, inventory, hash, fold, sent >>

\* lib.rs 153-163: the options of the request.  cainfo leaves peer
\* verification on; without a trust anchor it is switched off.
\* A slip of lib.rs 159-163: peer verification is switched off on both
\* branches.
EasyOptions_NeverVerify(self, url) ==
    [ url |-> url, username |-> self.username, password |-> self.password,
      cainfo |-> self.kube_ca_cert, ssl_verify_peer |-> FALSE ]
EasyOptions(self, url) ==
    [ url |-> url, username |-> self.username, password |-> self.password,
      cainfo |-> self.kube_ca_cert,
      ssl_verify_peer |-> IsSome(self.kube_ca_cert) ]

KubeApiSetup ==
    /\ pc = "kube_setup"
    /\ curl' = EasyOptions(Unwrap(conn), api_url)
    /\ pc' = "kube_perform"
    /\ UNCHANGED << envVars, fs, temps, helm, conn, runVars, events, idx,
                    overrides_file, response, api_url, deployments, inventory, hash,
                    fold, result, sent >>

\* lib.rs 165-173: the transfer; a transport failure is a curl error.
KubeApiPerform ==
    /\ pc = "kube_perform"
    /\ \E id \in ResponseIds(verb) :
          /\ response' = ResponseOf(id)
          /\ IF response'.transport = "err"
             THEN Exit(Err("Curl"))
             ELSE /\ pc' = "kube_parse"
                  /\ UNCHANGED << fs, temps, result >>
    /\ UNCHANGED << envVars, helm, conn, runVars, events, idx, overrides_file,
                    api_url, curl, deployments, inventory, hash, fold, sent >>

\* serde_json::from_str::<Map<String, Value>>: Some(map) for a JSON object,
\* None for any other JSON value and for text that is no JSON.
FromStrMap(body) == IF body[1] = "obj" THEN Some(body[2]) ELSE None

\* lib.rs 175-178: what kube_api does with the body.
KubeApiResult(body) ==
    IF IsSome(FromStrMap(body)) THEN Ok(Unwrap(FromStrMap(body))) ELSE Panic

KubeApiParse ==
    /\ pc = "kube_parse"
    /\ LET r == KubeApiResult(response.body)
       IN  IF r.kind = "ok"
           THEN /\ deployments' = r.value
                /\ pc' = "list_collect"
                /\ UNCHANGED << fs, temps, result >>
           ELSE /\ Exit(r)
                /\ UNCHANGED deployments
    /\ UNCHANGED << envVars, helm, conn, runVars, events, idx, overrides_file,
                    response, api_url, curl, inventory, hash, fold, sent >>

\* lib.rs 195-242.
ListCollect ==
    /\ pc = "list_collect"
    /\ inventory' = ListCharts(deployments, Unwrap(conn).namespace)
    /\ pc' = "digest_loop"
    /\ UNCHANGED << envVars, fs, temps, helm, conn, runVars, events, idx,
                    overrides_file, response, api_url, curl, deployments, hash, fold,
                    result, sent >>

\* lib.rs 247-253: one chart of the inventory is consumed.
DigestConsume ==
    /\ pc = "digest_loop"
    /\ fold < Len(inventory)
    /\ hash' = ConsumeChart(hash, inventory[fold + 1])
    /\ fold' = fold + 1
    /\ UNCHANGED << envVars, pc, fs, temps, helm, conn, runVars, events, idx,
                    overrides_file, response, api_url, curl, deployments, inventory,
                    result, sent >>

\* lib.rs 254.
DigestCompute ==
    /\ pc = "digest_loop"
    /\ fold = Len(inventory)
    /\ result' = Ok(Hex(hash))
    /\ pc' = "send"
    /\ UNCHANGED << envVars, fs, temps, helm, conn, runVars, events, idx,
                    overrides_file, listVars, sent >>

\* The response of a verb: check answers an array of versions, in and out a
\* version with metadata.  The Helm is dropped as the verb ends.
Message(v, digest) ==
    [ shape |-> IF v = "check" THEN "versions" ELSE "version_metadata",
      digest |-> digest ]

Send ==
    /\ pc = "send"
    /\ sent' = Append(sent, Message(verb, result.value))
    /\ pc' = "done"
    /\ fs' = DropAll(fs, temps)
    /\ temps' = {}
    /\ UNCHANGED << envVars, helm, conn, runVars, events, idx, overrides_file,
                    listVars, result >>

Next ==
    \/ ConfigureInvariant
    \/ ConfigureKubeConfig
    \/ ConfigureCaCert
    \/ ConfigureRepoUpdate
    \/ ConfigureOk
    \/ RunLog
    \/ RunSpawn
    \/ RunMirror
    \/ RunStatus
    \/ Verb
    \/ OutLoop
    \/ UpgradeBegin
    \/ UpgradeCleanup
    \/ DigestNew
    \/ ListUrl
    \/ KubeApiSetup
    \/ KubeApiPerform
    \/ KubeApiParse
    \/ ListCollect
    \/ DigestConsume
    \/ DigestCompute
    \/ Send

Spec == Init /\ [][Next]_vars

\* ------------------------------------------- a direct call of Helm::digest
\* The state after a successful configure: the Helm with its client
\* configuration and, when ca_data was given, its trust anchor.
InitList ==
    /\ source \in { c \in Sources : ~NoCaData(c) /\ UrlCanBeABase(c.url) }
    /\ verb = "digest"
    /\ params = << >>
    /\ response = NoResponse
    /\ pc = "digest"
    /\ fs = IF IsSome(source.ca_data)
            THEN (KubeConfigPath :> RenderKubeConfig(source))
                   @@ (CaCertPath :> Unwrap(source.ca_data))
            ELSE (KubeConfigPath :> RenderKubeConfig(source))
    /\ temps = DOMAIN fs
    /\ helm = Some(NewHelm(source, IF IsSome(source.ca_data) THEN Some(CaCertPath) ELSE None))
    /\ conn = helm
    /\ runCmd = RepoUpdateCmd
    /\ runOut = NoOutput
    /\ retpc = "configured"
    /\ ret = << >>
    /\ events = << >>
    /\ idx = 0
    /\ overrides_file = None
    /\ curl = NoCurl
    /\ api_url = << >>
    /\ deployments = << >>
    /\ inventory = << >>
    /\ hash = ContextNew
    /\ fold = 0
    /\ result = NoResult
    /\ sent = << >>

NextList ==
    \/ DigestNew
    \/ ListUrl
    \/ KubeApiSetup
    \/ KubeApiPerform
    \/ KubeApiParse
    \/ ListCollect
    \/ DigestConsume
    \/ DigestCompute

SpecList == InitList /\ [][NextList]_vars

\* ============================================================== the claims
\* Positions of events by kind.
SpawnAt == { i \in 1..Len(events) : events[i].ev = "spawn" }
ReturnAt == { i \in 1..Len(events) : events[i].ev = "return" }
FileAt == { i \in 1..Len(events) : events[i].ev = "file" }
\* The configuration breaks the invariant of section 3: no ca_data, and
\* skip_tls_verify absent or false.
Unverifiable ==
    /\ source.ca_data = None
    /\ source.skip_tls_verify \in { None, Some(FALSE) }

\* C1: configure fails with NoCaData exactly for a Source without ca_data
\* whose skip_tls_verify is absent or false, and then before any file is
\* written or any command is logged or run; for any other Source the verb
\* never ends with NoCaData.
C1_NoCaDataIff ==
    /\ result = Err("NoCaData") => Unverifiable /\ events = << >> /\ fs = << >>
    /\ (Unverifiable /\ pc # "configure") =>
          result = Err("NoCaData") /\ pc = "done" /\ conn = None
    /\ ~Unverifiable => result.err # "NoCaData"

C1_Witness ==
    /\ result = Err("NoCaData")
    /\ source.skip_tls_verify = Some(FALSE)

\* The inventory request has its options set.
RequestReady == pc \in { "kube_perform", "kube_parse" }

\* C2: on every inventory request peer verification is off only if
\* skip_tls_verify was explicitly true, and when ca_data was given the
\* request trusts the trust-anchor file (which holds ca_data) and verifies
\* the peer, skip_tls_verify or not.
C2_TrustPolicy ==
    RequestReady =>
        /\ ~curl.ssl_verify_peer => source.skip_tls_verify = Some(TRUE)
        /\ IsSome(source.ca_data) =>
              /\ curl.cainfo = Some(CaCertPath)
              /\ curl.ssl_verify_peer
              /\ CaCertPath \in DOMAIN fs
              /\ fs[CaCertPath] = Unwrap(source.ca_data)
        /\ IsNone(source.ca_data) => curl.cainfo = None /\ ~curl.ssl_verify_peer

C2_Witness ==
    /\ pc = "kube_perform"
    /\ IsSome(source.ca_data)
    /\ source.skip_tls_verify = Some(TRUE)
    /\ curl.ssl_verify_peer

\* s is t with blanks taken off both ends.
IsTrimOf(s, t) ==
    /\ s = << >> \/ (s[1] # " " /\ s[Len(s)] # " ")
    /\ \E a \in 0..Len(t) :
          /\ a + Len(s) <= Len(t)
          /\ SubSeq(t, a + 1, a + Len(s)) = s
          /\ \A q \in (1..a) \cup ((a + Len(s) + 1)..Len(t)) : t[q] = " "

\* C8: a command is logged right before it is spawned; when run reports its
\* outcome the stdout and then the stderr of the process have been written
\* to the diagnostics, on success and on failure; a non-zero exit gives
\* CmdFailed with the very command text, a zero exit the trimmed stdout.
C8_RunContract ==
    /\ pc = "run_spawn" =>
          /\ events # << >>
          /\ events[Len(events)] =
                [ ev |-> "stderr", what |-> "running", cmd |-> runCmd, data |-> << >> ]
    /\ pc = "run_status" =>
          /\ Len(events) >= 3
          /\ events[Len(events) - 2].ev = "spawn"
          /\ events[Len(events) - 2].cmd = runCmd
          /\ events[Len(events) - 1] =
                [ ev |-> "stderr", what |-> "stdout", cmd |-> runCmd,
                  data |-> runOut.stdout ]
          /\ events[Len(events)] =
                [ ev |-> "stderr", what |-> "stderr", cmd |-> runCmd,
                  data |-> runOut.stderr ]
    /\ \A i \in SpawnAt :
          /\ i > 1
          /\ events[i - 1].ev = "stderr"
          /\ events[i - 1].what = "running"
          /\ events[i - 1].cmd = events[i].cmd
          /\ events[i].data = KubeConfigPath
    /\ \A i \in ReturnAt :
          /\ i > 3
          /\ events[i - 3].ev = "spawn" /\ events[i - 3].cmd = events[i].cmd
          /\ events[i - 2].ev = "stderr" /\ events[i - 2].what = "stdout"
          /\ events[i - 1].ev = "stderr" /\ events[i - 1].what = "stderr"
          /\ (events[i].what = "err") = (events[i - 3].what # "exit0")
          /\ events[i].what = "err" =>
                /\ i = Len(events)
                /\ result = [ kind |-> "err", err |-> "CmdFailed",
                              cmd |-> events[i - 3].cmd, value |-> << >> ]
          /\ (i = Len(events) /\ events[i].what = "ok") =>
                IsTrimOf(ret, events[i - 2].data)
    /\ result.err = "CmdFailed" =>
          /\ events # << >>
          /\ events[Len(events)].ev = "return"
          /\ events[Len(events)].what = "err"
          /\ events[Len(events)].cmd = result.cmd

\* A command failed after an earlier one succeeded, both mirrored.
C8_Witness ==
    /\ result.err = "CmdFailed"
    /\ Cardinality(ReturnAt) >= 2
    /\ \E i \in ReturnAt : events[i].what = "ok" /\ events[i - 2].data # << >>
    /\ events[Len(events) - 1].data # << >>

\* The spawned commands, in order.
\* The events at the positions S, in order.
EventsAt(S) ==
    [ j \in 1..Cardinality(S) |->
        events[CHOOSE i \in S : Cardinality({ q \in S : q <= i }) = j] ]
Spawns == EventsAt(SpawnAt)
InitText == << [ lit |-> "helm init --client-only 1>&2", arg |-> << >> ] >>
RepoUpdateText == << [ lit |-> "helm repo update", arg |-> << >> ] >>
IsUpgrade(cmd) == cmd[1].lit = "helm upgrade -i --namespace"

\* C10: helm init is the first command and helm repo update the second, run
\* only after the client configuration (and the trust anchor, when ca_data
\* is given) is written; repo update runs only after init exited with 0; a
\* Helm is returned only after both exited with 0, a failing one ends the
\* verb with CmdFailed of that command, and without a returned Helm there is
\* no inventory request and no upgrade.
C10_BootstrapOrder ==
    /\ Len(Spawns) >= 1 =>
          /\ Spawns[1].cmd = InitText
          /\ \E i \in FileAt : i < Min(SpawnAt) /\ events[i].data = KubeConfigPath
          /\ IsSome(source.ca_data) =>
                \E i \in FileAt : i < Min(SpawnAt) /\ events[i].data = CaCertPath
    /\ Len(Spawns) >= 2 =>
          /\ Spawns[2].cmd = RepoUpdateText
          /\ Spawns[1].what = "exit0"
    /\ \A j \in 1..Len(Spawns) :
          (j <= 2 /\ Spawns[j].what # "exit0") =>
              /\ Len(Spawns) = j
              /\ conn = None
              /\ pc = "done" =>
                    result = [ kind |-> "err", err |-> "CmdFailed", cmd |-> Spawns[j].cmd,
                               value |-> << >> ]
    /\ IsSome(conn) =>
          /\ Len(Spawns) >= 2
          /\ Spawns[1].what = "exit0" /\ Spawns[2].what = "exit0"
    /\ IsNone(conn) =>
          /\ curl = NoCurl /\ response = NoResponse /\ sent = << >>
          /\ \A j \in 1..Len(Spawns) : ~IsUpgrade(Spawns[j].cmd)

\* Init succeeded, repo update failed, with a trust anchor on disk before.
C10_Witness ==
    /\ pc = "done"
    /\ Len(Spawns) = 2
    /\ Spawns[2].what = "exit1"
    /\ IsSome(source.ca_data)
    /\ result.err = "CmdFailed"

\* The spawned helm upgrade commands, in order.
Upgrades == EventsAt({ i \in SpawnAt : IsUpgrade(events[i].cmd) })
\* The command text is the upgrade of chart j of the request.
CmdIsFor(cmd, j) ==
    LET chart == params[j]
        n == Len(cmd)
    IN  /\ n >= 3
        /\ cmd[1] = [ lit |-> "helm upgrade -i --namespace", arg |-> source.namespace ]
        /\ cmd[n - 1] = [ lit |-> "", arg |-> chart.release ]
        /\ cmd[n] = [ lit |-> "stable/", arg |-> chart.name ]
        /\ IsSome(chart.version) = (\E q \in 1..n : cmd[q].lit = "--version")
        /\ IsSome(chart.overrides) = (\E q \in 1..n : cmd[q].lit = "--values")
        /\ \A q \in 1..n :
              /\ cmd[q].lit = "--version" => cmd[q].arg = Unwrap(chart.version)
              /\ cmd[q].lit = "--values" => cmd[q].arg = ValuesPath(j)

\* C6: out runs the upgrade commands of its charts one after the other in
\* request order; a command that fails is the last one run, no other kind of
\* command (no rollback) follows it, and the verb fails without a response;
\* a digest is computed only after all n commands ran and exited with 0, and
\* with n = 0 no upgrade command is run.
C6_OutSequential ==
    /\ verb # "out" => Upgrades = << >>
    /\ Len(Upgrades) <= Len(params)
    /\ Len(Upgrades) \in { idx - 1, idx } \/ (idx = 0 /\ Upgrades = << >>)
    /\ \A j \in 1..Len(Upgrades) :
          /\ CmdIsFor(Upgrades[j].cmd, j)
          /\ j < Len(Upgrades) => Upgrades[j].what = "exit0"
          /\ Upgrades[j].what # "exit0" =>
                /\ j = Len(Upgrades)
                /\ events[Len(events)].ev # "spawn" => events[Len(events)].cmd = Upgrades[j].cmd
                /\ pc = "done" => result.err = "CmdFailed" /\ sent = << >>
                /\ curl = NoCurl
    /\ \A j \in 1..Len(Spawns) :
          Spawns[j].cmd \in { InitText, RepoUpdateText } \/ IsUpgrade(Spawns[j].cmd)
    /\ (verb = "out" /\ (curl # NoCurl \/ result.kind = "ok")) =>
          /\ Len(Upgrades) = Len(params)
          /\ \A j \in 1..Len(Upgrades) : Upgrades[j].what = "exit0"
    /\ (pc = "done" /\ result.kind = "ok") => Len(sent) = 1 /\ sent[1].digest = result.value

\* Three charts, the second fails: the first has run, the third has not.
C6_Witness ==
    /\ pc = "done"
    /\ Len(params) = 3
    /\ Len(Upgrades) = 2
    /\ Upgrades[1].what = "exit0"
    /\ Upgrades[2].what = "exit1"
    /\ result.err = "CmdFailed"

\* C9: once upgrade has run the command of a chart with overrides, the
\* values file is released whether the command succeeded or failed: when
\* the verb has ended it is no longer on disk.
C9_ValuesFileReleased ==
    pc = "done" =>
        \A i \in ReturnAt :
            LET cmd == events[i].cmd
            IN  IsUpgrade(cmd) =>
                    \A q \in 1..Len(cmd) :
                        cmd[q].lit = "--values" => cmd[q].arg \notin DOMAIN fs

\* The items of the response, read off the JSON directly: the array under
\* "items" of a JSON object, nothing otherwise.
BodyIsObject == response.transport = "ok" /\ response.body[1] = "obj"
RespItems ==
    IF /\ BodyIsObject
       /\ "items" \in DOMAIN response.body[2]
       /\ response.body[2].items[1] = "arr"
    THEN response.body[2].items[2] ELSE << >>
HasObject(m, key) == key \in DOMAIN m /\ m[key][1] = "obj"
HasString(m, key) == key \in DOMAIN m /\ m[key][1] = "str"
IsString(m, key, s) == HasString(m, key) /\ m[key][2] = s
\* The item is of the connection's namespace and carries heritage "Tiller".
Managed(item) ==
    /\ item[1] = "obj"
    /\ HasObject(item[2], "metadata")
    /\ IsString(item[2].metadata[2], "namespace", source.namespace)
    /\ HasObject(item[2].metadata[2], "labels")
    /\ IsString(item[2].metadata[2].labels[2], "heritage", << "T", "i", "l", "l", "e", "r" >>)
LabelsOf(item) == item[2].metadata[2].labels[2]
\* list has returned its inventory.
Listed == pc \in { "digest_loop", "send" }

\* C3: every chart of the inventory comes from an item of the response whose
\* metadata.namespace is the connection's namespace and whose heritage label
\* is "Tiller"; there are no more charts than such items; and for any JSON
\* object, whatever its items, list returns an inventory and does not fail.
C3_OnlyManagedItems ==
    /\ Listed =>
          /\ \A c \in 1..Len(inventory) : \E j \in 1..Len(RespItems) :
                /\ Managed(RespItems[j])
                /\ IsString(LabelsOf(RespItems[j]), "release", inventory[c].release)
                /\ IsString(LabelsOf(RespItems[j]), "chart",
                            inventory[c].name \o << "-" >> \o inventory[c].version[1])
          /\ Len(inventory) <= Cardinality({ j \in 1..Len(RespItems) : Managed(RespItems[j]) })
    /\ BodyIsObject =>
          /\ pc \in { "kube_parse", "list_collect", "digest_loop", "send" }
          /\ result.kind \in { "none", "ok" }

\* Of two items one has another heritage and is dropped, one is kept.
C3_Witness ==
    /\ pc = "send"
    /\ Len(RespItems) = 2
    /\ Len(inventory) = 1
    /\ Managed(RespItems[2])
    /\ RespItems[1][1] = "obj"
    /\ HasObject(RespItems[1][2], "metadata")
    /\ IsString(RespItems[1][2].metadata[2], "namespace", source.namespace)
    /\ HasObject(RespItems[1][2].metadata[2], "labels")
    /\ IsString(LabelsOf(RespItems[1]), "heritage", << "H", "e", "l", "m" >>)
    /\ result.kind = "ok"

\* The position of the last hyphen of a label that has one.
LastHyphen(label) ==
    CHOOSE p \in 1..Len(label) :
        label[p] = "-" /\ \A q \in (p + 1)..Len(label) : label[q] # "-"
HasHyphen(label) == \E p \in 1..Len(label) : label[p] = "-"
\* The charts section 4.3 step 5 asks for, item by item.
RECURSIVE ChartsByLastHyphen(_)
ChartsByLastHyphen(items) ==
    IF items = << >> THEN << >>
    ELSE LET item == Head(items)
             kept == /\ Managed(item)
                     /\ HasString(LabelsOf(item), "release")
                     /\ HasString(LabelsOf(item), "chart")
                     /\ HasHyphen(LabelsOf(item).chart[2])
         IN  (IF kept
              THEN LET label == LabelsOf(item).chart[2]
                       p == LastHyphen(label)
                   IN  << [ release |-> LabelsOf(item).release[2],
                            name |-> SubSeq(label, 1, p - 1),
                            version |-> << SubSeq(label, p + 1, Len(label)) >>,
                            overrides |-> << >> ] >>
              ELSE << >>)
             \o ChartsByLastHyphen(Tail(items))

\* C4: the inventory is, in the order of the response, one chart for each
\* managed item that has a release label and a chart label with a hyphen:
\* release verbatim, name the text before the last hyphen, version the text
\* after it; every other managed item is dropped and list still returns.
C4_SplitOnLastHyphen ==
    /\ Listed => inventory = ChartsByLastHyphen(RespItems)
    /\ BodyIsObject => pc \in { "kube_parse", "list_collect", "digest_loop", "send" }

\* "mychart" is dropped, "my-chart-name-2.0.0" gives my-chart-name, 2.0.0.
C4_Witness ==
    /\ pc = "send"
    /\ Len(RespItems) = 2
    /\ Managed(RespItems[1])
    /\ IsString(LabelsOf(RespItems[1]), "chart", << "m", "y", "c", "h", "a", "r", "t" >>)
    /\ inventory =
          << [ release |-> << "r", "1" >>,
               name |-> << "m", "y", "-", "c", "h", "a", "r", "t", "-", "n", "a", "m", "e" >>,
               version |-> << << "2", ".", "0", ".", "0" >> >>,
               overrides |-> << >> ] >>

\* "mychart-1.2.3" gives mychart, 1.2.3.
C4_Example ==
    /\ pc = "send"
    /\ Len(RespItems) = 1
    /\ Len(inventory) = 1
    /\ Managed(RespItems[1])
    /\ IsString(LabelsOf(RespItems[1]), "chart", S_mychart_1_2_3)
    /\ inventory[1].name = << "m", "y", "c", "h", "a", "r", "t" >>
    /\ inventory[1].version = << << "1", ".", "2", ".", "3" >> >>

\* release, name and version, if any, of the charts, end to end.
RECURSIVE InventoryText(_)
InventoryText(charts) ==
    IF charts = << >> THEN << >>
    ELSE Head(charts).release \o Head(charts).name
           \o (IF Head(charts).version # << >> THEN Head(charts).version[1] ELSE << >>)
           \o InventoryText(Tail(charts))
Reverse(seq) == [ i \in 1..Len(seq) |-> seq[Len(seq) + 1 - i] ]

\* C5: the digest is the hexadecimal form of the hash of the text of the
\* inventory (release, name, version of each chart in inventory order, no
\* separators), and so is the Context after each chart of the fold.
C5_DigestOfConcatenation ==
    /\ pc = "digest_loop" =>
          hash = Consume(ContextNew, InventoryText(SubSeq(inventory, 1, fold)))
    /\ pc = "send" =>
          result = [ kind |-> "ok", err |-> "", cmd |-> << >>,
                     value |-> Hex(Consume(ContextNew, InventoryText(inventory))) ]

\* Two different charts whose other order has another digest.
C5_Witness ==
    /\ pc = "send"
    /\ Len(inventory) = 2
    /\ inventory[1] # inventory[2]
    /\ result.value # Hex(Consume(ContextNew, InventoryText(Reverse(inventory))))

\* Two inventories of different charts with the same text have one digest:
\* (r1, "", "") and (r, 1, "").
C5_SameText ==
    /\ pc = "send"
    /\ Len(inventory) = 1
    /\ inventory[1].release = S_r
    /\ result.value = Hex(Consume(ContextNew, S_r1))

\* C7: a body that is no JSON object makes the verb end with the curl error
\* a transport failure gives.
C7_NonObjectIsApiFailure ==
    (response.transport = "ok" /\ response.body[1] # "obj" /\ pc # "kube_parse") =>
        result = [ kind |-> "err", err |-> "Curl", cmd |-> << >>, value |-> << >> ]

====
